---- MODULE Spec2Model ----
(***************************************************************************)
(* Model of examples/encode_oneshot.cc: ReadPFM, EncodeJxlOneshot,         *)
(* WriteFile and main.                                                     *)
(*                                                                         *)
(* Files are sequences of byte values (header characters are their ASCII   *)
(* codes).  uint32_t and size_t values are little-endian sequences of      *)
(* base-256 digits ("limbs"), 4 for uint32_t and 8 for size_t, so that the *)
(* wrap-around of 32-bit arithmetic is computed exactly.                   *)
(***************************************************************************)
EXTENDS Integers, Sequences, FiniteSets, TLC

\* ------------------------------------------------------------------------
\* Bounds of the model
\* ------------------------------------------------------------------------

\* longest pixel payload (in bytes) of an enumerated input file
MaxPayload == 49

\* most JXL_ENC_NEED_MORE_OUTPUT answers the encoder gives in one run
MaxNeedMore == 3

\* ------------------------------------------------------------------------
\* Fixed-width unsigned arithmetic on limbs
\* ------------------------------------------------------------------------

RECURSIVE ToLimbs(_, _)
\* the k low base-256 digits of the natural number n
ToLimbs(n, k) ==
  IF k = 0 THEN <<>> ELSE <<n % 256>> \o ToLimbs(n \div 256, k - 1)

\* digit i (0-based) of a, zero beyond its length
Limb(a, i) == IF i + 1 <= Len(a) THEN a[i + 1] ELSE 0

\* a zero-extended or truncated to k limbs (integral conversion)
Resize(a, k) == [i \in 1..k |-> Limb(a, i - 1)]

RECURSIVE AddRec(_, _, _, _, _)
AddRec(a, b, p, carry, k) ==
  IF p = k THEN <<>>
  ELSE LET s == Limb(a, p) + Limb(b, p) + carry
       IN  <<s % 256>> \o AddRec(a, b, p + 1, s \div 256, k)

\* (a + b) mod 256^k
AddLimbs(a, b, k) == AddRec(a, b, 0, 0, k)

RECURSIVE ColSum(_, _, _, _)
\* sum of a_i * b_(p-i) for i = 0..upto
ColSum(a, b, p, upto) ==
  IF upto < 0 THEN 0
  ELSE Limb(a, upto) * Limb(b, p - upto) + ColSum(a, b, p, upto - 1)

RECURSIVE MulRec(_, _, _, _, _)
MulRec(a, b, p, carry, k) ==
  IF p = k THEN <<>>
  ELSE LET s == ColSum(a, b, p, p) + carry
       IN  <<s % 256>> \o MulRec(a, b, p + 1, s \div 256, k)

\* (a * b) mod 256^k
MulLimbs(a, b, k) == MulRec(a, b, 0, 0, k)

RECURSIVE LtRec(_, _, _)
LtRec(a, b, i) ==
  IF i < 0 THEN FALSE
  ELSE IF Limb(a, i) # Limb(b, i) THEN Limb(a, i) < Limb(b, i)
  ELSE LtRec(a, b, i - 1)

\* a < b as natural numbers
LtLimbs(a, b) ==
  LtRec(a, b, (IF Len(a) > Len(b) THEN Len(a) ELSE Len(b)) - 1)

\* uint32_t arithmetic: results are reduced modulo 2^32
U32(n) == ToLimbs(n, 4)
Mul32(a, b) == MulLimbs(a, b, 4)
Add32(a, b) == AddLimbs(a, b, 4)
\* two's complement: (2^32 - a) mod 2^32
Neg32(a) == Add32([i \in 1..4 |-> 255 - Limb(a, i - 1)], U32(1))
Sub32(a, b) == Add32(a, Neg32(b))

\* conversion of a uint32_t to int (modular, as every supported compiler)
AsInt(u) ==
  u[1] + 256 * u[2] + 65536 * u[3]
       + 16777216 * (IF u[4] >= 128 THEN u[4] - 256 ELSE u[4])

\* a limb value known to be below 2^31 as a number
AsNat(a) == AsInt(Resize(a, 4))

\* TRUE iff the limb value is below 2^16
IsSmall(a) == \A i \in 1..Len(a) : i > 2 => a[i] = 0

\* ------------------------------------------------------------------------
\* Header parsing
\* ------------------------------------------------------------------------

\* '\n', the delimiter of the signature, height and endianness lines
NL == 10
\* ' ', the delimiter between the width and the height
SP == 32

IsDigit(ch) == ch >= 48 /\ ch <= 57
\* isspace() in the "C" locale
IsSpace(ch) == ch \in {9, 10, 11, 12, 13, 32}

\* the header tokens the code compares against
TokPF == <<80, 70>>
TokBigEndian == <<49, 46, 48>>
TokLittleEndian == <<45, 49, 46, 48>>

RECURSIVE FindDelim(_, _, _)
\* index of the first delim at or after pos, Len(data) + 1 if there is none
FindDelim(data, pos, delim) ==
  IF pos > Len(data) THEN Len(data) + 1
  ELSE IF data[pos] = delim THEN pos
  ELSE FindDelim(data, pos + 1, delim)

\* getline(datastream, token, delim) with the stream positioned before
\* data[pos]: the characters up to the delimiter or the end of the data; the
\* delimiter is consumed and dropped.  At the end of the data the token stays
\* empty.
GetLine(data, pos, delim) ==
  LET d == FindDelim(data, pos, delim)
  IN  [token |-> SubSeq(data, pos, d - 1),
       next  |-> IF d > Len(data) THEN Len(data) + 1 ELSE d + 1]

RECURSIVE SkipSpace(_, _)
SkipSpace(s, i) ==
  IF i <= Len(s) /\ IsSpace(s[i]) THEN SkipSpace(s, i + 1) ELSE i

RECURSIVE CountDigits(_, _)
CountDigits(s, i) ==
  IF i <= Len(s) /\ IsDigit(s[i]) THEN 1 + CountDigits(s, i + 1) ELSE 0

\* 2^31, one more than INT_MAX
TwoTo31 == <<0, 0, 0, 128>>

RECURSIVE Accumulate(_, _, _, _)
\* value of the n decimal digits of s from index i on, added to acc * 10^n;
\* once the value exceeds 2^31 it is no longer extended (it stays above
\* every int)
Accumulate(s, i, n, acc) ==
  IF n = 0 THEN acc
  ELSE IF LtLimbs(TwoTo31, acc) THEN acc
  ELSE Accumulate(s, i + 1, n - 1,
                  AddLimbs(MulLimbs(acc, ToLimbs(10, 1), 6),
                           ToLimbs(s[i] - 48, 1), 6))

\* std::stoi(s): leading white space is skipped, an optional sign and the
\* longest run of decimal digits are converted, what follows is ignored.
\* No digit: std::invalid_argument; a value outside int: std::out_of_range.
\* The value is given as the uint32_t the int converts to.
StoI(s) ==
  LET i0  == SkipSpace(s, 1)
      neg == i0 <= Len(s) /\ s[i0] = 45
      i1  == IF i0 <= Len(s) /\ s[i0] \in {43, 45} THEN i0 + 1 ELSE i0
      nd  == CountDigits(s, i1)
      mag == Accumulate(s, i1, nd, ToLimbs(0, 6))
  IN  IF nd = 0 THEN [status |-> "invalid_argument", value |-> U32(0)]
      ELSE IF (IF neg THEN LtLimbs(TwoTo31, mag) ELSE ~LtLimbs(mag, TwoTo31))
      THEN [status |-> "out_of_range", value |-> U32(0)]
      ELSE [status |-> "ok",
            value  |-> IF neg THEN Neg32(Resize(mag, 4)) ELSE Resize(mag, 4)]

\* ------------------------------------------------------------------------
\* ReadPFM
\* ------------------------------------------------------------------------

\* value of a uint32_t that was never assigned (main's xsize and ysize when
\* ReadPFM returns before setting them); no code path reads it
Unset == <<>>

\* 0.0f, the value std::vector<float>::resize gives to new elements
ZeroFloat == <<0, 0, 0, 0>>

\* the float memcpy'd from the sizeof(float) bytes of data after off bytes
FloatAt(data, off) == SubSeq(data, off + 1, off + 4)

\* index (y * *xsize + x) * 3 + c, evaluated in unsigned 32-bit arithmetic
PixelIndex(y, x, c, xsize) ==
  AsInt(Add32(Mul32(Add32(Mul32(U32(y), xsize), U32(x)), U32(3)), U32(c)))

RECURSIVE CopyLoop(_, _, _, _, _, _, _)
\* iterations k, k+1, ..., total-1 of the copy loop nest: y runs from Y down
\* to 0, x from 0 to X-1, c from 0 to 2, and the read position advances by
\* sizeof(float) in every iteration
CopyLoop(px, data, offset, xsize, Y, k, total) ==
  IF k = total THEN px
  ELSE LET X == AsInt(xsize)
           y == Y - (k \div (X * 3))
           x == (k \div 3) % X
           c == k % 3
       IN  CopyLoop([px EXCEPT ![PixelIndex(y, x, c, xsize) + 1] =
                                 FloatAt(data, offset + 4 * k)],
                    data, offset, xsize, Y, k + 1, total)

\* the result of ReadPFM when it returns without filling the pixels
ReadFails(ret, xs, ys) ==
  [ret |-> ret, xsize |-> xs, ysize |-> ys, pixels |-> <<>>, offset |-> 0]

\* lines 134-146: the pixels are resized and filled from the payload.  The
\* loop counters are ints: y starts at (int)(*ysize - 1) and x stays below
\* (int)*xsize.  A loop that reads past the end of data or writes past the
\* end of pixels is undefined behaviour: the process is killed, or the
\* function returns true with pixels of unspecified content.
FillPixels(data, offset, xsize, ysize) ==
  LET count == Mul32(Mul32(ysize, xsize), U32(3))
      Y     == AsInt(Sub32(ysize, U32(1)))
      X     == AsInt(xsize)
      none  == Y < 0 \/ X <= 0
      safe  == \/ none
               \/ /\ Y < Len(data) /\ X <= Len(data)
                  /\ offset + (Y + 1) * X * 12 <= Len(data)
                  /\ (Y + 1) * X * 3 <= AsNat(count)
      total == IF none THEN 0 ELSE (Y + 1) * X * 3
      blank == [i \in 1..AsNat(count) |-> ZeroFloat]
  IN  IF ~IsSmall(count)
      THEN \* an allocation of 2^16 floats or more is not represented; with a
           \* payload of at most MaxPayload bytes it is one of 2^30 floats or
           \* more, which no enumerated header asks for
           {ReadFails("throw", xsize, ysize)}
      ELSE IF safe
      THEN {[ret |-> "true", xsize |-> xsize, ysize |-> ysize,
             pixels |-> CopyLoop(blank, data, offset, xsize, Y, 0, total),
             offset |-> offset + 4 * total]}
      ELSE {ReadFails("crash", xsize, ysize),
            [ret |-> "true", xsize |-> xsize, ysize |-> ysize,
             pixels |-> blank, offset |-> offset]}

\* the offset ReadPFM computes for the first payload byte: the sizes of the
\* four header tokens and one delimiter after each
HeaderSize(data) ==
  LET pf == GetLine(data, 1, NL)
      xt == GetLine(data, pf.next, SP)
      yt == GetLine(data, xt.next, NL)
      et == GetLine(data, yt.next, NL)
  IN  Len(pf.token) + 1 + Len(xt.token) + 1
      + Len(yt.token) + 1 + Len(et.token) + 1

\* how the file I/O of ReadPFM goes: "ok", or the call that fails
IoOutcomes == {"ok", "fopen", "fseek_end", "ftell", "fseek_set", "fread",
               "fclose"}

\* ReadPFM on a file with content data, whose I/O calls behave as io says, on
\* a host that is little endian or not.  The result is the set of outcomes
\* the call can have: ret is "true" or "false" for a return, "throw" for an
\* exception that leaves the function and "crash" for a killed process;
\* offset is the read position in data at the return.
ReadPFM(data, io, little_endian) ==
  LET pf == GetLine(data, 1, NL)
      xt == GetLine(data, pf.next, SP)
      xv == StoI(xt.token)
      yt == GetLine(data, xt.next, NL)
      yv == StoI(yt.token)
      et == GetLine(data, yt.next, NL)
      xsize == xv.value
      ysize == yv.value
      offset == HeaderSize(data)
      expected == AddLimbs(Mul32(Mul32(Mul32(ysize, xsize), U32(3)), U32(4)),
                           ToLimbs(offset, 8), 8)
  IN  IF io # "ok" THEN {ReadFails("false", Unset, Unset)}
      ELSE IF pf.token # TokPF THEN {ReadFails("false", Unset, Unset)}
      ELSE IF xv.status # "ok" THEN {ReadFails("throw", Unset, Unset)}
      ELSE IF yv.status # "ok" THEN {ReadFails("throw", xsize, Unset)}
      ELSE IF et.token \notin {TokBigEndian, TokLittleEndian}
      THEN {ReadFails("false", xsize, ysize)}
      ELSE IF ToLimbs(Len(data), 8) # expected
      THEN {ReadFails("false", xsize, ysize)}
      ELSE IF little_endian # (et.token = TokLittleEndian)
      THEN {ReadFails("false", xsize, ysize)}
      ELSE FillPixels(data, offset, xsize, ysize)

\* ------------------------------------------------------------------------
\* Input files
\* ------------------------------------------------------------------------

\* "0", "1", "2", "-1", "65536", "x"
WidthTokens ==
  {<<48>>, <<49>>, <<50>>, <<45, 49>>, <<54, 53, 53, 51, 54>>, <<120>>}

\* "0", "1", "2", "-1", "65536", " 1", "99999999999"
HeightTokens ==
  {<<48>>, <<49>>, <<50>>, <<45, 49>>, <<54, 53, 53, 51, 54>>, <<32, 49>>,
   <<57, 57, 57, 57, 57, 57, 57, 57, 57, 57, 57>>}

\* "-1.0", "1.0"
EndianTokens == {TokLittleEndian, TokBigEndian}

\* the payload sizes: the sizes of whole pixels (12 bytes each) and the
\* sizes one byte off
PayloadLens == {n \in 0..MaxPayload : n % 12 \in {0, 1, 11}}

\* a payload of n bytes in which every group of four bytes is different
Payload(n) == [i \in 1..n |-> (5 * i) % 256]

Header(pf, xt, yt, et) ==
  pf \o <<NL>> \o xt \o <<SP>> \o yt \o <<NL>> \o et \o <<NL>>

\* files that are no Portable FloatMap: an empty file, "PF" alone, a header
\* without its last newline, the signature "Pf", the endianness "2.0"
MalformedFiles ==
  {<<>>, TokPF, <<80, 70, 10, 48, 32, 48, 10, 45, 49, 46, 48>>,
   Header(<<80, 102>>, <<49>>, <<49>>, TokLittleEndian) \o Payload(12),
   Header(TokPF, <<49>>, <<49>>, <<50, 46, 48>>) \o Payload(12)}

\* the files ReadPFM is run on: every header built from the tokens above
\* followed by every payload, and the malformed files
Files ==
  {Header(TokPF, xt, yt, et) \o Payload(n) :
     xt \in WidthTokens, yt \in HeightTokens, et \in EndianTokens,
     n \in PayloadLens}
  \cup MalformedFiles

\* ------------------------------------------------------------------------
\* The encoder and the output buffer
\* ------------------------------------------------------------------------

JXL_ENC_SUCCESS == "JXL_ENC_SUCCESS"
JXL_ENC_ERROR == "JXL_ENC_ERROR"
JXL_ENC_NEED_MORE_OUTPUT == "JXL_ENC_NEED_MORE_OUTPUT"
JxlEncoderStatus == {JXL_ENC_SUCCESS, JXL_ENC_ERROR, JXL_ENC_NEED_MORE_OUTPUT}

\* the size compressed is given before the first JxlEncoderProcessOutput
InitialSize == 64

\* std::vector<uint8_t>::resize(n): the first n elements are kept, new
\* elements are zero
VectorResize(buf, n) ==
  IF n <= Len(buf) THEN SubSeq(buf, 1, n)
  ELSE buf \o [i \in 1..(n - Len(buf)) |-> 0]

\* mutation: the buffer grows by its initial size
GrownSize_AddInitial(size) == size + InitialSize

\* the size compressed is resized to when the encoder wants more output
GrownSize(size) == size * 2

\* mutation: the cursor restarts at the beginning of the resized buffer
NextOutAfterResize_Reset(offset) == 0

\* next_out, as an offset into compressed, after compressed has been resized
\* while next_out was at offset
NextOutAfterResize(offset) == offset

\* mutation: the loop goes on until the encoder reports success
LoopContinues_UntilSuccess(result) == result # JXL_ENC_SUCCESS

\* the condition of the while loop
LoopContinues(result) == result = JXL_ENC_NEED_MORE_OUTPUT

\* mutation: the buffer is resized after every call
NeedsResize_Always(result) == TRUE

\* the condition under which the loop body resizes compressed
NeedsResize(result) == result = JXL_ENC_NEED_MORE_OUTPUT

\* mutation: only JXL_ENC_ERROR counts as a failure
Failed_OnlyError(status) == status = JXL_ENC_ERROR

\* the test every encoder call's status is put to
Failed(status) == status # JXL_ENC_SUCCESS

\* the bytes a JxlEncoderProcessOutput call writes: n bytes whose values
\* number the positions of the encoder's output stream
Chunk(produced, n) == [i \in 1..n |-> (Len(produced) + i) % 256]

\* how many bytes a JxlEncoderProcessOutput call may write when avail bytes
\* are offered
ChunkLens(avail) == {0, 1, avail - 1, avail} \cap (0..avail)

\* buf with chunk stored from offset on
StoreAt(buf, offset, chunk) ==
  SubSeq(buf, 1, offset) \o chunk
    \o SubSeq(buf, offset + Len(chunk) + 1, Len(buf))

\* ------------------------------------------------------------------------
\* WriteFile
\* ------------------------------------------------------------------------

WriteOutcomes == {"ok", "fopen", "fwrite", "fclose"}

\* WriteFile(bytes, filename) when its I/O goes as wio says: whether it
\* returns true, whether the file was opened (and so truncated), and the
\* bytes that reached it.  fwrite of no bytes cannot fall short.
WriteFile(bytes, wio) ==
  IF wio = "fopen"
  THEN {[ret |-> FALSE, opened |-> FALSE, bytes |-> <<>>]}
  ELSE IF wio = "fwrite"
  THEN {[ret |-> FALSE, opened |-> TRUE, bytes |-> SubSeq(bytes, 1, n)] :
          n \in {0, Len(bytes) - 1} \cap (0..(Len(bytes) - 1))}
  ELSE {[ret |-> wio = "ok", opened |-> TRUE, bytes |-> bytes]}

\* ------------------------------------------------------------------------
\* State
\* ------------------------------------------------------------------------

VARIABLES
  pc,             \* where the process is: "main", the next encoder call of
                  \* EncodeJxlOneshot, "write", or how it ended
  argc,           \* main's argument count
  little_endian,  \* little_endian[0] of ReadPFM: the host's byte order
  data,           \* the bytes ReadPFM read from the input file
  xsize, ysize,   \* main's xsize and ysize
  pixels,         \* main's pixels
  readOffset,     \* ReadPFM's offset when it returned
  readRet,        \* "none" until ReadPFM ends, then how it ended
  calls,          \* the encoder calls made so far, with their statuses
  encDestroyed,   \* number of JxlEncoderDestroy calls
  runnerCreated,  \* number of JxlThreadParallelRunnerCreate calls
  runnerDestroyed,\* number of JxlThreadParallelRunnerDestroy calls
  dimensions,     \* the arguments of JxlEncoderSetDimensions
  frameBytes,     \* the size argument of JxlEncoderAddImageFrame
  compressed,     \* main's compressed
  next_out,       \* next_out as an offset from compressed->data()
  avail_out,      \* avail_out
  process_result, \* process_result
  produced,       \* all bytes the encoder wrote, in order
  grown,          \* number of times the loop resized compressed
  encodeRet,      \* "none" until EncodeJxlOneshot returns, then its result
  outOpened,      \* the output file was opened for writing
  outBytes,       \* the bytes written to the output file
  writeRet,       \* "none" until WriteFile returns, then its result
  exitStatus      \* main's return value once pc = "exited"

vars == <<pc, argc, little_endian, data, xsize, ysize, pixels, readOffset,
          readRet, writeRet, calls, encDestroyed, runnerCreated, runnerDestroyed, dimensions,
          frameBytes, compressed, next_out, avail_out, process_result,
          produced, grown, encodeRet, outOpened, outBytes, exitStatus>>

readVars == <<data, xsize, ysize, pixels, readOffset, readRet>>
drainVars == <<compressed, next_out, avail_out, process_result, produced,
               grown>>
outVars == <<outOpened, outBytes, writeRet>>

Init ==
  /\ pc = "main"
  /\ argc \in 1..4
  /\ little_endian \in BOOLEAN
  /\ data = <<>>
  /\ xsize = Unset
  /\ ysize = Unset
  /\ pixels = <<>>
  /\ readOffset = 0
  /\ readRet = "none"
  /\ writeRet = "none"
  /\ calls = <<>>
  /\ encDestroyed = 0
  /\ runnerCreated = 0
  /\ runnerDestroyed = 0
  /\ dimensions = <<>>
  /\ frameBytes = 0
  /\ compressed = <<>>
  /\ next_out = 0
  /\ avail_out = 0
  /\ process_result = JXL_ENC_NEED_MORE_OUTPUT
  /\ produced = <<>>
  /\ grown = 0
  /\ encodeRet = "none"
  /\ outOpened = FALSE
  /\ outBytes = <<>>
  /\ exitStatus = 0

Call(op, res) == [op |-> op, res |-> res]

\* number of calls of op made so far
Count(op) == Cardinality({i \in 1..Len(calls) : calls[i].op = op})

\* number of calls of op that returned res
CountRes(op, res) ==
  Cardinality({i \in 1..Len(calls) : calls[i].op = op /\ calls[i].res = res})

\* ------------------------------------------------------------------------
\* main and EncodeJxlOneshot, one action per stage or encoder call
\* ------------------------------------------------------------------------

\* main with a wrong argument count: the usage text, return 1
Main_Usage ==
  /\ pc = "main"
  /\ argc # 3
  /\ pc' = "exited"
  /\ exitStatus' = 1
  /\ UNCHANGED <<argc, little_endian, readVars, calls, encDestroyed,
                 runnerCreated, runnerDestroyed, dimensions, frameBytes,
                 drainVars, encodeRet, outVars>>

\* main calls ReadPFM; when it returns false main returns 2.  An exception
\* of std::stoi is caught nowhere: std::terminate ends the process.
Main_ReadPFM ==
  /\ pc = "main"
  /\ argc = 3
  /\ \E io \in IoOutcomes :
       \E file \in (IF io = "ok" THEN Files ELSE {<<>>}) :
         \E r \in ReadPFM(file, io, little_endian) :
           /\ data' = file
           /\ xsize' = r.xsize
           /\ ysize' = r.ysize
           /\ pixels' = r.pixels
           /\ readOffset' = r.offset
           /\ readRet' = r.ret
           /\ pc' = CASE r.ret = "true"  -> "attach"
                      [] r.ret = "false" -> "exited"
                      [] r.ret = "throw" -> "terminated"
                      [] OTHER           -> "crashed"
           /\ exitStatus' = IF r.ret = "false" THEN 2 ELSE exitStatus
  /\ UNCHANGED <<argc, little_endian, calls, encDestroyed, runnerCreated,
                 runnerDestroyed, dimensions, frameBytes, drainVars,
                 encodeRet, outVars>>

\* a failure return of EncodeJxlOneshot after the calls cs: the runner and
\* the encoder are destroyed, false is returned, and main returns 3
EncodeFails(cs) ==
  /\ calls' = Append(cs, Call("JxlEncoderDestroy", "none"))
  /\ runnerDestroyed' = runnerDestroyed + 1
  /\ encDestroyed' = encDestroyed + 1
  /\ encodeRet' = "false"
  /\ pc' = "exited"
  /\ exitStatus' = 3

\* the success return of EncodeJxlOneshot after the calls cs: the encoder is
\* destroyed, true is returned, and main goes on to WriteFile
EncodeSucceeds(cs) ==
  /\ calls' = Append(cs, Call("JxlEncoderDestroy", "none"))
  /\ encDestroyed' = encDestroyed + 1
  /\ encodeRet' = "true"
  /\ pc' = "write"
  /\ UNCHANGED <<runnerDestroyed, exitStatus>>

\* an encoder call that succeeded: EncodeJxlOneshot goes on to stage next
EncodeGoesOn(cs, next) ==
  /\ calls' = cs
  /\ pc' = next
  /\ UNCHANGED <<encDestroyed, runnerDestroyed, encodeRet, exitStatus>>

\* JxlEncoderCreate, JxlThreadParallelRunnerCreate and
\* JxlEncoderSetParallelRunner
Encode_SetParallelRunner ==
  /\ pc = "attach"
  /\ runnerCreated' = runnerCreated + 1
  /\ \E st \in JxlEncoderStatus :
       LET cs == calls \o <<Call("JxlEncoderCreate", "none"),
                            Call("JxlEncoderSetParallelRunner", st)>>
       IN  IF Failed(st) THEN EncodeFails(cs) ELSE EncodeGoesOn(cs, "dims")
  /\ UNCHANGED <<argc, little_endian, readVars, dimensions, frameBytes,
                 drainVars, outVars>>

\* JxlEncoderSetDimensions
Encode_SetDimensions ==
  /\ pc = "dims"
  /\ dimensions' = <<xsize, ysize>>
  /\ \E st \in JxlEncoderStatus :
       LET cs == Append(calls, Call("JxlEncoderSetDimensions", st))
       IN  IF Failed(st) THEN EncodeFails(cs) ELSE EncodeGoesOn(cs, "frame")
  /\ UNCHANGED <<argc, little_endian, readVars, runnerCreated, frameBytes,
                 drainVars, outVars>>

\* JxlEncoderAddImageFrame with sizeof(float) * pixels.size() bytes; on
\* success compressed is resized and the loop's variables are initialised
Encode_AddImageFrame ==
  /\ pc = "frame"
  /\ frameBytes' = 4 * Len(pixels)
  /\ \E st \in JxlEncoderStatus :
       LET cs == Append(calls, Call("JxlEncoderAddImageFrame", st))
       IN  IF Failed(st)
           THEN /\ EncodeFails(cs)
                /\ UNCHANGED drainVars
           ELSE /\ EncodeGoesOn(cs, "drain")
                /\ compressed' = VectorResize(compressed, InitialSize)
                /\ next_out' = 0
                /\ avail_out' = InitialSize - 0
                /\ process_result' = JXL_ENC_NEED_MORE_OUTPUT
                /\ UNCHANGED <<produced, grown>>
  /\ UNCHANGED <<argc, little_endian, readVars, runnerCreated, dimensions,
                 outVars>>

\* one iteration of the while loop: JxlEncoderProcessOutput writes n bytes
\* at next_out and returns st; compressed is grown when more output is
\* wanted.  When the loop ends, compressed is cut to the bytes before
\* next_out and EncodeJxlOneshot returns.
Encode_ProcessOutput ==
  /\ pc = "drain"
  /\ LoopContinues(process_result)
  /\ \E st \in JxlEncoderStatus :
       \E n \in ChunkLens(avail_out) :
         /\ st = JXL_ENC_NEED_MORE_OUTPUT =>
              CountRes("JxlEncoderProcessOutput", JXL_ENC_NEED_MORE_OUTPUT)
                < MaxNeedMore
         /\ LET chunk  == Chunk(produced, n)
                buf    == StoreAt(compressed, next_out, chunk)
                cursor == next_out + n
                avail  == avail_out - n
                cs     == Append(calls, Call("JxlEncoderProcessOutput", st))
                offset == cursor
                bigger == VectorResize(buf, GrownSize(Len(buf)))
                resize == NeedsResize(st)
                buf2   == IF resize THEN bigger ELSE buf
                cur2   == IF resize THEN NextOutAfterResize(offset)
                          ELSE cursor
                avail2 == IF resize THEN Len(bigger) - offset ELSE avail
            IN  /\ produced' = produced \o chunk
                /\ process_result' = st
                /\ grown' = IF resize THEN grown + 1 ELSE grown
                /\ next_out' = cur2
                /\ avail_out' = avail2
                /\ IF LoopContinues(st)
                   THEN /\ compressed' = buf2
                        /\ EncodeGoesOn(cs, "drain")
                   ELSE /\ compressed' = VectorResize(buf2, cur2)
                        /\ IF Failed(st) THEN EncodeFails(cs)
                           ELSE EncodeSucceeds(cs)
  /\ UNCHANGED <<argc, little_endian, readVars, runnerCreated, dimensions,
                 frameBytes, outVars>>

\* main calls WriteFile with compressed and returns 0, or 4 when it failed
Main_WriteFile ==
  /\ pc = "write"
  /\ \E wio \in WriteOutcomes :
       \E w \in WriteFile(compressed, wio) :
         /\ outOpened' = w.opened
         /\ outBytes' = w.bytes
         /\ writeRet' = IF w.ret THEN "true" ELSE "false"
         /\ exitStatus' = IF w.ret THEN 0 ELSE 4
  /\ pc' = "exited"
  /\ UNCHANGED <<argc, little_endian, readVars, calls, encDestroyed,
                 runnerCreated, runnerDestroyed, dimensions, frameBytes,
                 drainVars, encodeRet>>

Next ==
  \/ Main_Usage
  \/ Main_ReadPFM
  \/ Encode_SetParallelRunner
  \/ Encode_SetDimensions
  \/ Encode_AddImageFrame
  \/ Encode_ProcessOutput
  \/ Main_WriteFile

Spec == Init /\ [][Next]_vars

\* the loop is synchronous and nothing can cancel it: a call of
\* JxlEncoderProcessOutput that is due is made
FairSpec == Spec /\ WF_vars(Encode_ProcessOutput)

\* ------------------------------------------------------------------------
\* Properties
\* ------------------------------------------------------------------------

ProcessCalls == Count("JxlEncoderProcessOutput")
NeedMoreAnswers ==
  CountRes("JxlEncoderProcessOutput", JXL_ENC_NEED_MORE_OUTPUT)

\* the number of payload bytes of the file that was read
PayloadLen == Len(data) - HeaderSize(data)

\* ysize * xsize * n as a natural number (9 limbs hold every such product)
TrueProduct(n) ==
  MulLimbs(MulLimbs(ysize, xsize, 9), ToLimbs(n, 1), 9)

\* C1: whenever EncodeJxlOneshot has returned, successfully or not, the
\* encoder and the parallel runner it acquired have each been released
\* exactly once.
HandlesReleasedOnce ==
  encodeRet # "none" =>
    /\ runnerCreated = 1
    /\ encDestroyed = 1
    /\ runnerDestroyed = 1

\* C2: when the encoder has answered NEED_MORE_OUTPUT some number of times
\* and then SUCCESS, the buffer EncodeJxlOneshot returns is exactly the
\* bytes the encoder wrote, in order, and its length is the written length.
DrainReturnsProducedBytes ==
  encodeRet = "true" =>
    /\ compressed = produced
    /\ Len(compressed) = next_out

DrainReturnsProducedBytesWitness ==
  /\ encodeRet = "true"
  /\ grown >= 2
  /\ Len(produced) > InitialSize

\* C3: in every iteration after which the loop goes on, the size of
\* compressed does not decrease; when the encoder asked for more output the
\* size at least doubles, and the bytes before the written length are the
\* ones that were there, followed by the ones just written.
DrainGrowthDoubles ==
  [][(pc = "drain" /\ pc' = "drain") =>
       /\ Len(compressed') >= Len(compressed)
       /\ process_result' = JXL_ENC_NEED_MORE_OUTPUT =>
            /\ grown' = grown + 1
            /\ Len(compressed') >= 2 * Len(compressed)
       /\ SubSeq(compressed', 1, next_out) = SubSeq(compressed, 1, next_out)
       /\ SubSeq(compressed', 1, next_out') = produced']_vars

DrainGrowthDoublesWitness ==
  /\ pc = "drain"
  /\ grown >= 2
  /\ next_out > 2 * InitialSize

\* C4: ReadPFM returns true only if the number of bytes after the header is
\* exactly height * width * 3 * 4, the product taken without wrap-around.
PayloadSizeExact ==
  readRet = "true" =>
    /\ PayloadLen >= 0
    /\ ToLimbs(PayloadLen, 9) = TrueProduct(12)

\* C5: the exit status names the first stage that failed, and no later
\* stage runs: 1 iff the argument count is wrong, 2 for every read or parse
\* failure, 3 for every encode failure, 4 iff only the write failed, 0 iff
\* nothing failed.
ExitStatusNamesFailedStage ==
  pc \in {"exited", "terminated", "crashed"} =>
    /\ (argc # 3) <=> (pc = "exited" /\ exitStatus = 1)
    /\ argc # 3 => readRet = "none" /\ ~outOpened
    /\ readRet \in {"false", "throw"} =>
         /\ pc = "exited" /\ exitStatus = 2
         /\ calls = <<>> /\ ~outOpened
    /\ encodeRet = "false" =>
         /\ pc = "exited" /\ exitStatus = 3
         /\ ~outOpened
    /\ (pc = "exited" /\ exitStatus = 4) <=>
         (readRet = "true" /\ encodeRet = "true" /\ writeRet = "false")
    /\ (pc = "exited" /\ exitStatus = 0) <=>
         (readRet = "true" /\ encodeRet = "true" /\ writeRet = "true")

\* C6: after ReadPFM has returned true, the sample of row r, column x and
\* channel c is the float of the payload at index
\* ((height-1-r) * width + x) * 3 + c, for every r below the height and x
\* below the width, and the read position is the end of the file.  (An
\* image whose width or height is 2^16 or more and that is not empty has
\* more samples than any enumerated payload.)
RowsReversed ==
  readRet = "true" =>
    /\ readOffset = Len(data)
    /\ \/ xsize = U32(0)
       \/ ysize = U32(0)
       \/ /\ IsSmall(xsize) /\ IsSmall(ysize)
          /\ LET w == AsNat(xsize)
                 h == AsNat(ysize)
             IN  \A r \in 0..(h - 1), x \in 0..(w - 1), c \in 0..2 :
                   LET out == (r * w + x) * 3 + c
                       in  == ((h - 1 - r) * w + x) * 3 + c
                   IN  /\ out + 1 <= Len(pixels)
                       /\ HeaderSize(data) + 4 * in + 4 <= Len(data)
                       /\ pixels[out + 1]
                            = FloatAt(data, HeaderSize(data) + 4 * in)

\* a JxlEncoderProcessOutput call answered with a status that is neither
\* SUCCESS nor NEED_MORE_OUTPUT
ProcessFailedAt(i) ==
  /\ calls[i].op = "JxlEncoderProcessOutput"
  /\ calls[i].res \notin {JXL_ENC_SUCCESS, JXL_ENC_NEED_MORE_OUTPUT}

ProcessFailed == \E i \in 1..Len(calls) : ProcessFailedAt(i)

\* C7 as claimed: after JxlEncoderProcessOutput has failed, no further call
\* of it is made, the encode fails, the buffer handed back to the caller
\* holds no produced byte, and nothing is written to the output file.
ErrorLeavesBufferEmpty ==
  ProcessFailed =>
    /\ \A i \in 1..Len(calls) :
         ProcessFailedAt(i) =>
           /\ i = Len(calls) - 1
           /\ calls[i + 1].op = "JxlEncoderDestroy"
    /\ encodeRet = "false" /\ pc = "exited" /\ exitStatus = 3
    /\ compressed = <<>>
    /\ ~outOpened /\ outBytes = <<>>

\* C7 as amended: after JxlEncoderProcessOutput has failed, no further call
\* of it is made, the encode fails with exit status 3 and nothing is written
\* to the output file; the caller's buffer holds the bytes produced so far.
ErrorStopsDrainAndWrite ==
  ProcessFailed =>
    /\ \A i \in 1..Len(calls) :
         ProcessFailedAt(i) =>
           /\ i = Len(calls) - 1
           /\ calls[i + 1].op = "JxlEncoderDestroy"
    /\ encodeRet = "false" /\ pc = "exited" /\ exitStatus = 3
    /\ compressed = produced
    /\ ~outOpened /\ outBytes = <<>> /\ writeRet = "none"

ErrorStopsDrainAndWriteWitness ==
  /\ ProcessFailed
  /\ grown >= 1
  /\ Len(produced) > InitialSize

\* C8: after ReadPFM has returned true, pixels holds width * height * 3
\* samples, the product taken without wrap-around, and the frame handed to
\* the encoder has that many floats.
SampleCountIsProduct ==
  readRet = "true" =>
    /\ ToLimbs(Len(pixels), 9) = TrueProduct(3)
    /\ Count("JxlEncoderAddImageFrame") > 0 => frameBytes = 4 * Len(pixels)

\* the place of an encoder call in the lifecycle
Rank(op) ==
  CASE op = "JxlEncoderCreate"            -> 1
    [] op = "JxlEncoderSetParallelRunner" -> 2
    [] op = "JxlEncoderSetDimensions"     -> 3
    [] op = "JxlEncoderAddImageFrame"     -> 4
    [] op = "JxlEncoderProcessOutput"     -> 5
    [] op = "JxlEncoderDestroy"           -> 6

\* C9: the encoder calls are made in the order create, set dimensions, add
\* frame, process output (repeated), destroy; only process output is called
\* more than once; it is called only after set dimensions and add frame
\* succeeded, and at least once in a run that encodes successfully; nothing
\* is called after destroy.
EncoderCallOrder ==
  /\ \A i, j \in 1..Len(calls) :
       i < j =>
         /\ Rank(calls[i].op) <= Rank(calls[j].op)
         /\ Rank(calls[i].op) = Rank(calls[j].op) =>
              calls[i].op = "JxlEncoderProcessOutput"
  /\ calls # <<>> => calls[1].op = "JxlEncoderCreate"
  /\ ProcessCalls > 0 =>
       /\ CountRes("JxlEncoderSetDimensions", JXL_ENC_SUCCESS) = 1
       /\ CountRes("JxlEncoderAddImageFrame", JXL_ENC_SUCCESS) = 1
  /\ \A i \in 1..Len(calls) :
       (calls[i].op \in {"JxlEncoderSetParallelRunner",
                         "JxlEncoderSetDimensions",
                         "JxlEncoderAddImageFrame"}
        /\ calls[i].res # JXL_ENC_SUCCESS) =>
         (i < Len(calls) /\ calls[i + 1].op = "JxlEncoderDestroy")
  /\ encodeRet # "none" => calls[Len(calls)].op = "JxlEncoderDestroy"
  /\ encodeRet = "true" => ProcessCalls >= 1

EncoderCallOrderWitness ==
  /\ pc = "exited"
  /\ exitStatus = 0
  /\ ProcessCalls = 2

\* the counts of the drain loop: one resize for every NEED_MORE_OUTPUT
\* answer and no other; once the loop has ended, one more call than
\* NEED_MORE_OUTPUT answers; no call after an answer that ends the loop
DrainCounts ==
  /\ grown = NeedMoreAnswers
  /\ pc = "drain" => ProcessCalls = NeedMoreAnswers
  /\ (encodeRet # "none" /\ ProcessCalls > 0) =>
       ProcessCalls = NeedMoreAnswers + 1
  /\ \A i \in 1..Len(calls) :
       (calls[i].op = "JxlEncoderProcessOutput"
        /\ calls[i].res # JXL_ENC_NEED_MORE_OUTPUT) =>
         (i < Len(calls) /\ calls[i + 1].op = "JxlEncoderDestroy")

\* C10: with finitely many NEED_MORE_OUTPUT answers the drain loop ends,
\* after one call more than there were such answers and one resize for each
\* of them, and JxlEncoderProcessOutput is not called after an answer that
\* ends the loop.
DrainTerminates ==
  /\ []DrainCounts
  /\ (pc = "drain") ~> (pc # "drain" /\ encodeRet # "none")

DrainTerminatesWitness ==
  /\ encodeRet = "false"
  /\ ProcessCalls = 3
  /\ grown = 2

====
